---- MODULE Spec2Model ----
(***************************************************************************)
(* Model of cvm-benchmark's interactive startup detector                   *)
(* (src/src/benchmarks/interactive-pty.ts, benchmarkInteractive).          *)
(*                                                                         *)
(* One trial is modelled: the promise executor (spawn, timer, handlers),   *)
(* the three callbacks it installs (timeout, onData, onExit) and the two   *)
(* timers onData may start (trust-prompt write, stabilization).            *)
(*                                                                         *)
(* Text is a sequence of fragments.  A fragment is a piece of terminal     *)
(* output that the child writes in one piece or split from its neighbour:  *)
(*   "ESC[?2" \o "004h"  is the bracketed-paste sequence  \x1b[?2004h      *)
(*   "ESC[?1" \o "004h"  is the focus-events sequence     \x1b[?1004h      *)
(*   "CSI"               is one complete CSI sequence such as \x1b[0m      *)
(*   ">" , " "           are the prompt character and a whitespace         *)
(*   "requ" \o "ires"    is the word  requires                             *)
(*   "1.0.24", "1.0.30"  are version tokens: maximal runs of digits and    *)
(*                       dots of the form \d+\.\d+\.\d+                    *)
(*   "\n"                is a line break                                   *)
(* Time is the millisecond clock Date.now(); it advances in steps of       *)
(* TickMs, and any number of events can happen within one clock value.     *)
(*                                                                         *)
(* The suite runner (src/src/core/benchmark-runner.ts, runSuite and        *)
(* benchmarkVersion) and the version filter (src/src/utils/                *)
(* version-filter.ts) are modelled over their own variables.  The runner   *)
(* takes a step at each await; an awaited trial is one step that resolves  *)
(* with a run or rejects.  A version string is the sequence of its         *)
(* numerals, <<1, 0, 24>> for 1.0.24.                                      *)
(*                                                                         *)
(* The host variables hold what the runner leaves outside itself: the      *)
(* children it sent kill() to, and the run-N directories of the result     *)
(* store (src/src/storage/result-store.ts).  ChildSpec adds the exits of   *)
(* killed children to the runner; StoreSpec takes two runSuite invocations *)
(* as their accesses to the result store.  LegacySpec is the detector of   *)
(* lib/benchmark-interactive.js (benchmarkStartup) over the trial's        *)
(* variables.                                                              *)
(***************************************************************************)
EXTENDS Integers, Sequences, FiniteSets, TLC

\* ---------------------------------------------------------------- bounds
TickMs == 250
MaxClock == 1000
MaxChunks == 3
Timeouts == {750}
StartClocks == {TickMs}
ExitCodes == {0, 1}
MaxPieces == 2
MaxRuns == 2
MaxTimes == 3
MaxLimit == 2
MaxStored == 4

\* ------------------------------------------------------------- constants
StabilizationMs == 500
TrustDelayMs == 100

\* ------------------------------------------------------------------ text
BracketedPasteSeq == <<"ESC[?2", "004h">>
FocusEventsSeq == <<"ESC[?1", "004h">>
TrustPromptText == <<"Do you trust the files">>
Whitespace == {" ", "\n"}
\* a piece of output the session regex /"session_id":"([a-f0-9-]+)"/ matches
SessionText == <<"\"session_id\":\"ab12\"">>
NoSession == "undefined"

ErrorPhrases ==
    {<<"needs update">>, <<"newer version">>, <<"requ", "ires">>, <<"minimum version">>}

\* the chunks the child is made to write
Chunks ==
    { BracketedPasteSeq, FocusEventsSeq, <<">", " ">>,
      BracketedPasteSeq \o FocusEventsSeq \o <<">", "CSI", " ">>,
      FocusEventsSeq \o <<"requ">>, <<"ires", ">", " ">>,
      <<"needs update">>,
      TrustPromptText \o <<"ESC[?2">>, <<"004h">> \o SessionText }

\* String.prototype.includes
Contains(s, p) ==
    \E i \in 0..(Len(s) - Len(p)) : SubSeq(s, i + 1, i + Len(p)) = p

\* replace(/\x1b\[[0-9;]*[a-zA-Z]/g, ''): removes every complete CSI sequence
StripAnsi(s) == SelectSeq(s, LAMBDA c : c # "CSI")

\* />\s/.test(s)
PromptPattern(s) ==
    \E i \in 1..(Len(s) - 1) : s[i] = ">" /\ s[i + 1] \in Whitespace

\* mutant: only the two phrases of the legacy detector are looked for
HasErrorPhraseShort(out) ==
    Contains(out, <<"needs update">>) \/ Contains(out, <<"newer version">>)

\* the condition "Check for version requirement error message", without !errorDetected
HasErrorPhrase(out) == \E p \in ErrorPhrases : Contains(out, p)

\* --------------------------------------------------------------- signals
NoSignals == [bracketedPaste |-> FALSE, focusEvents |-> FALSE, prompt |-> FALSE]

\* mutant: the prompt is left out of the readiness condition
AllSignalsNoPrompt(sig) == sig.bracketedPaste /\ sig.focusEvents

\* signals.bracketedPaste && signals.focusEvents && signals.prompt
AllSignals(sig) == sig.bracketedPaste /\ sig.focusEvents /\ sig.prompt

\* mutant: the prompt counts only after the two escape sequences were seen
ClassifyInOrder(sig, data) ==
    [bracketedPaste |-> sig.bracketedPaste \/ Contains(data, BracketedPasteSeq),
     focusEvents |-> sig.focusEvents \/ Contains(data, FocusEventsSeq),
     prompt |-> sig.prompt \/ (sig.bracketedPaste /\ sig.focusEvents
                                  /\ PromptPattern(StripAnsi(data)))]

\* mutant: each flag is assigned the latest chunk's finding
ClassifyLatestOnly(sig, data) ==
    [bracketedPaste |-> Contains(data, BracketedPasteSeq),
     focusEvents |-> Contains(data, FocusEventsSeq),
     prompt |-> PromptPattern(StripAnsi(data))]

\* the three "Check for ready signals" statements, applied to one chunk
Classify(sig, data) ==
    [bracketedPaste |-> sig.bracketedPaste \/ Contains(data, BracketedPasteSeq),
     focusEvents |-> sig.focusEvents \/ Contains(data, FocusEventsSeq),
     prompt |-> sig.prompt \/ PromptPattern(StripAnsi(data))]

\* mutant: the trust prompt is answered on every chunk while its text is in the buffer
TrustDetectedAgain(out, handled) == Contains(out, TrustPromptText)

\* the condition "Handle trust prompt"
TrustDetected(out, handled) == ~handled /\ Contains(out, TrustPromptText)

\* ----------------------------------------------------- version extraction
Versions == {"1.0.24", "1.0.30"}
ExpectedMinVersion == "1.0.24"

\* words the case-insensitive patterns accept
OrHigherWords == {"or higher", "OR HIGHER"}
VersionWords == {"version", "Version"}
\* fragments that end with the word "version"
VersionEnds == VersionWords \cup {"newer version", "minimum version"}
MinimumWords == {"minimum", "Minimum"}
RequWords == {"requ", "Requ"}

Frag(s, i) == IF i \in 1..Len(s) THEN s[i] ELSE ""

\* s[i..j] is a non-empty run of fragments of the class cls
Run(s, i, j, cls) == i <= j /\ j <= Len(s) /\ \A k \in i..j : s[k] \in cls

\* The matches of each pattern in s, as pairs <<start of the match, group 1>>.
\* /(\d+\.\d+\.\d+)\s+or higher/i
MatchOrHigher(s) ==
    { m \in (1..Len(s)) \X Versions :
        /\ s[m[1]] = m[2]
        /\ \E j \in 1..Len(s) :
              Run(s, m[1] + 1, j, Whitespace) /\ Frag(s, j + 1) \in OrHigherWords }

\* /version\s+\((\d+\.\d+\.\d+)/i
MatchVersionParen(s) ==
    { m \in (1..Len(s)) \X Versions :
        /\ s[m[1]] \in VersionEnds
        /\ \E j \in 1..Len(s) :
              /\ Run(s, m[1] + 1, j, Whitespace)
              /\ Frag(s, j + 1) = "(" /\ Frag(s, j + 2) = m[2] }

\* /requires\s+(\d+\.\d+\.\d+)/i
MatchRequires(s) ==
    { m \in (1..Len(s)) \X Versions :
        /\ s[m[1]] \in RequWords /\ Frag(s, m[1] + 1) = "ires"
        /\ \E j \in 1..Len(s) :
              Run(s, m[1] + 2, j, Whitespace) /\ Frag(s, j + 1) = m[2] }

\* /minimum\s+version[:\s]+(\d+\.\d+\.\d+)/i
MatchMinimumVersion(s) ==
    { m \in (1..Len(s)) \X Versions :
        \E e \in 1..Len(s) :              \* e: where the word "version" ends
          /\ \/ s[m[1]] = "minimum version" /\ e = m[1]
             \/ /\ s[m[1]] \in MinimumWords
                /\ Run(s, m[1] + 1, e - 1, Whitespace)
                /\ s[e] \in VersionWords
          /\ \E j \in 1..Len(s) :
                Run(s, e + 1, j, Whitespace \cup {":"}) /\ Frag(s, j + 1) = m[2] }

\* /v?(\d+\.\d+\.\d+)\+/
MatchPlus(s) ==
    { m \in (1..Len(s)) \X Versions : s[m[1]] = m[2] /\ Frag(s, m[1] + 1) = "+" }

PatternMatches(s) ==
    <<MatchOrHigher(s), MatchVersionParen(s), MatchRequires(s),
      MatchMinimumVersion(s), MatchPlus(s)>>

\* String.prototype.match without the g flag: group 1 of the leftmost match
Leftmost(ms) == (CHOOSE m \in ms : \A n \in ms : m[1] <= n[1])[2]

\* the first pattern of `order` that matches decides; <<>> is null
FirstMatch(s, order) ==
    LET ms == PatternMatches(s)
        hits == {k \in 1..Len(order) : ms[order[k]] # {}}
    IN  IF hits = {} THEN <<>>
        ELSE <<Leftmost(ms[order[CHOOSE k \in hits : \A h \in hits : k <= h]])>>

\* mutant: the "v<ver>+" pattern is tried first
VersionMatchPlusFirst(s) == FirstMatch(s, <<5, 1, 2, 3, 4>>)

\* versionMatch, on the cleaned output
VersionMatch(s) == FirstMatch(s, <<1, 2, 3, 4, 5>>)

\* mutant: no fallback to the expected minimum version
MinVersionRequiredNoFallback(s) ==
    IF VersionMatch(s) # <<>> THEN VersionMatch(s)[1] ELSE "null"

\* minVersion || EXPECTED_MIN_VERSION
MinVersionRequired(s) ==
    IF VersionMatch(s) # <<>> THEN VersionMatch(s)[1] ELSE ExpectedMinVersion

\* the wordings a sample output is put together from, for the version token v
Pieces(v) ==
    { <<v>>,
      <<"v", v, " ", "or higher">>,
      <<v, "CSI", " ", " ", "OR HIGHER">>,
      <<"version", " ", "(", v>>,
      <<"newer version", "\n", "(", v>>,
      <<"requ", "ires", " ", v>>,
      <<"Requ", "ires", " ", "v", v>>,
      <<"minimum", " ", "version", ":", " ", v>>,
      <<"minimum version", " ", v>>,
      <<"v", v, "+">> }

AllPieces == UNION {Pieces(v) : v \in Versions}

RECURSIVE Joined(_)
\* the texts made of at most n pieces, each followed by a line break
Joined(n) ==
    IF n = 0 THEN {<<>>}
    ELSE Joined(n - 1) \cup {t \o p \o <<"\n">> : t \in Joined(n - 1), p \in AllPieces}

\* accumulated outputs that hold a version-gate phrase
Samples == {<<"Error:", " ", "needs update", " ">> \o t : t \in Joined(MaxPieces)}

\* ---------------------------------------------------------- error message
RECURSIVE SplitLines(_)
\* String.prototype.split('\n')
SplitLines(s) ==
    IF \A i \in 1..Len(s) : s[i] # "\n" THEN <<s>>
    ELSE LET i == CHOOSE k \in 1..Len(s) : s[k] = "\n" /\ \A j \in 1..(k - 1) : s[j] # "\n"
         IN  <<SubSeq(s, 1, i - 1)>> \o SplitLines(SubSeq(s, i + 1, Len(s)))

RECURSIVE JoinLines(_)
\* Array.prototype.join('\n')
JoinLines(ls) ==
    IF ls = <<>> THEN <<>>
    ELSE IF Len(ls) = 1 THEN ls[1]
    ELSE ls[1] \o <<"\n">> \o JoinLines(Tail(ls))

\* String.prototype.trim
Trim(s) ==
    LET keep == {i \in 1..Len(s) : s[i] \notin Whitespace}
    IN  IF keep = {} THEN <<>>
        ELSE SubSeq(s, CHOOSE i \in keep : \A j \in keep : i <= j,
                       CHOOSE i \in keep : \A j \in keep : i >= j)

\* Array.prototype.slice(from, to), 0-based, for 0 <= from
Slice(ls, from, to) ==
    LET hi == IF to < 0 THEN Len(ls) + to ELSE IF to > Len(ls) THEN Len(ls) ELSE to
    IN  SubSeq(ls, from + 1, hi)

\* fullErrorMessage: the line before the first error line up to five lines after it
ErrorMessage(clean) ==
    LET lines == SplitLines(clean)
        found == {i \in 1..Len(lines) : HasErrorPhrase(lines[i])}
        errorStartIdx == IF found = {} THEN 0 - 1
                         ELSE (CHOOSE i \in found : \A j \in found : i <= j) - 1
        from == IF errorStartIdx - 1 > 0 THEN errorStartIdx - 1 ELSE 0
    IN  Trim(JoinLines(Slice(lines, from, errorStartIdx + 6)))

\* ---------------------------------------------------------------- result
\* an optional exit code: <<>> when there is none, <<code>> otherwise
NoCode == <<>>
Code(c) == <<c>>

\* the signals field of a result object: missing, the trial's own signals object
\* (a reference: it shows later changes), or a copy { ...signals }
Absent == [ref |-> "absent", val |-> NoSignals]
Live == [ref |-> "live", val |-> NoSignals]
Copy(sig) == [ref |-> "copy", val |-> sig]

\* the optional fields minVersionRequired, errorMessage and rawOutput are <<>> when
\* missing and <<value>> when present
NoResult ==
    [outcome |-> "pending", time |-> 0, exitCode |-> NoCode, signals |-> Absent,
     minVersionRequired |-> <<>>, errorMessage |-> <<>>, rawOutput |-> <<>>]

\* mutant: the exit code defaults to 0
RunResultDefaultCode(o, t, c, s) ==
    [outcome |-> o, time |-> t, exitCode |-> IF c = NoCode THEN Code(0) ELSE c,
     signals |-> s, minVersionRequired |-> <<>>, errorMessage |-> <<>>, rawOutput |-> <<>>]

\* the result objects of the timeout, ready and exit resolutions
RunResult(o, t, c, s) ==
    [outcome |-> o, time |-> t, exitCode |-> c, signals |-> s,
     minVersionRequired |-> <<>>, errorMessage |-> <<>>, rawOutput |-> <<>>]

\* the result object of the error branch, for the accumulated output `out`; every
\* modelled output is shorter than the 2000 characters rawOutput is cut to
ErrorResult(t, out) ==
    LET cleanOutput == StripAnsi(out)
    IN  [outcome |-> "error_detected", time |-> t, exitCode |-> NoCode, signals |-> Absent,
         minVersionRequired |-> <<MinVersionRequired(cleanOutput)>>,
         errorMessage |-> <<ErrorMessage(cleanOutput)>>,
         rawOutput |-> <<cleanOutput>>]

\* mutant: a later resolution replaces the earlier one
ResolveLastWins(res, r) == r

\* the promise's resolve: only the first call settles the promise
Resolve(res, r) == IF res = NoResult THEN r ELSE res

\* ---------------------------------------------------------------- timers
NoTimer == [st |-> "none", at |-> 0]

SetTimeout(now, delay) == [st |-> "armed", at |-> now + delay]

ClearTimeout(t) == IF t.st = "armed" THEN [t EXCEPT !.st = "cleared"] ELSE t

\* -------------------------------------------------------- version filter
\* A version string "1.0.24" is the sequence of its dot-separated numerals,
\* <<1, 0, 24>>; two strings are equal when their sequences are.

\* the versions the installed list and the filter lists are made of
VersionPool == {<<0, 2, 120>>, <<1, 0, 5>>, <<1, 0, 24>>, <<2, 0, 1>>}

\* version.split('.').map(Number), destructured into major, minor, patch
ParseVersion(version) ==
    [major |-> version[1], minor |-> version[2], patch |-> version[3]]

\* negative if a < b, 0 if a = b, positive if a > b
CompareVersions(a, b) ==
    LET vA == ParseVersion(a)
        vB == ParseVersion(b)
    IN  IF vA.major # vB.major THEN vA.major - vB.major
        ELSE IF vA.minor # vB.minor THEN vA.minor - vB.minor
        ELSE vA.patch - vB.patch

\* Array.prototype.includes
Includes(arr, v) == \E i \in 1..Len(arr) : arr[i] = v

RECURSIVE SortVersions(_)
\* [...versions].sort(compareVersions): a stable sort of a copy
SortVersions(vs) ==
    IF vs = <<>> THEN <<>>
    ELSE LET last == vs[Len(vs)]
             front == SortVersions(SubSeq(vs, 1, Len(vs) - 1))
             upTo == {i \in 0..Len(front) :
                        \A j \in 1..i : CompareVersions(front[j], last) <= 0}
             k == CHOOSE i \in upTo : \A j \in upTo : j <= i
         IN  SubSeq(front, 1, k) \o <<last>> \o SubSeq(front, k + 1, Len(front))

\* mutant: the limit keeps the first (lowest) versions
ApplyLimitLowest(filtered, limit) ==
    IF limit # <<>> /\ limit[1] # 0
      THEN SubSeq(filtered, 1, IF limit[1] < Len(filtered) THEN limit[1] ELSE Len(filtered))
      ELSE filtered

\* if (config.versions.limit) filtered = filtered.slice(-config.versions.limit)
ApplyLimit(filtered, limit) ==
    IF limit # <<>> /\ limit[1] # 0
      THEN SubSeq(filtered,
                  (IF Len(filtered) > limit[1] THEN Len(filtered) - limit[1] ELSE 0) + 1,
                  Len(filtered))
      ELSE filtered

\* filterVersions(allVersions, config), for v = config.versions; the optional
\* min, max, limit and include are <<>> when undefined and <<value>> otherwise
FilterVersions(allVersions, v) ==
    LET f0 == allVersions
        f1 == IF v.include # <<>> /\ Len(v.include[1]) > 0
                THEN SelectSeq(f0, LAMBDA x : Includes(v.include[1], x)) ELSE f0
        f2 == IF v.min # <<>>
                THEN SelectSeq(f1, LAMBDA x : CompareVersions(x, v.min[1]) >= 0) ELSE f1
        f3 == IF v.max # <<>>
                THEN SelectSeq(f2, LAMBDA x : CompareVersions(x, v.max[1]) <= 0) ELSE f2
        f4 == IF Len(v.exclude) > 0
                THEN SelectSeq(f3, LAMBDA x : ~Includes(v.exclude, x)) ELSE f3
    IN  ApplyLimit(SortVersions(f4), v.limit)

\* ------------------------------------------------------ version summary
RECURSIVE Sum(_)
\* reduce((a, b) => a + b, 0)
Sum(xs) == IF xs = <<>> THEN 0 ELSE xs[1] + Sum(Tail(xs))

Squares(xs) == [i \in 1..Len(xs) |-> xs[i] * xs[i]]

\* Math.min(...xs) and Math.max(...xs), for a non-empty xs
MinOf(xs) == CHOOSE m \in {xs[i] : i \in 1..Len(xs)} : \A i \in 1..Len(xs) : m <= xs[i]
MaxOf(xs) == CHOOSE m \in {xs[i] : i \in 1..Len(xs)} : \A i \in 1..Len(xs) : m >= xs[i]

\* Math.round(a / b) for a >= 0 and b > 0: the nearest integer, a half rounds up
RoundDiv(a, b) == (2 * a + b) \div (2 * b)

\* mutant: the sample standard deviation (divisor n - 1), for two or more times
StdDevSample(xs) ==
    LET n == Len(xs)
        q == n * Sum(Squares(xs)) - Sum(xs) * Sum(xs)
        d == IF n > 1 THEN n * (n - 1) ELSE 1
    IN  CHOOSE r \in 0..(2 * (MaxOf(xs) - MinOf(xs))) :
            /\ r = 0 \/ (2 * r - 1) * (2 * r - 1) * d <= 4 * q
            /\ 4 * q < (2 * r + 1) * (2 * r + 1) * d

\* Math.round(Math.sqrt(variance)) with variance = sum((b - mean)^2) / n.
\* n * n * variance is the integer q, so the rounded root is the r with
\* r - 1/2 <= sqrt(q) / n < r + 1/2.
StdDev(xs) ==
    LET n == Len(xs)
        q == n * Sum(Squares(xs)) - Sum(xs) * Sum(xs)
    IN  CHOOSE r \in 0..(MaxOf(xs) - MinOf(xs)) :
            /\ r = 0 \/ (2 * r - 1) * (2 * r - 1) * n * n <= 4 * q
            /\ 4 * q < (2 * r + 1) * (2 * r + 1) * n * n

\* avgTime, minTime, maxTime and stdDev of a non-empty list of times
Stats(times) ==
    [avgTime |-> RoundDiv(Sum(times), Len(times)),
     minTime |-> MinOf(times),
     maxTime |-> MaxOf(times),
     stdDev |-> StdDev(times)]

\* the reason text of a trial result
Reason(outcome) ==
    CASE outcome = "timeout" -> "Benchmark timed out"
      [] outcome = "error_detected" -> "version_requirement_not_met"
      [] outcome = "ready" -> "all terminal signals received and process stable"
      [] outcome = "ui_then_exit" -> "showed prompt but immediately exited"
      [] outcome = "exited_early" -> "process exited before showing prompt"

\* mutant: the summary outcome is the last trial's
InteractiveSummaryLastRun(version, rs) ==
    LET st == Stats([i \in 1..Len(rs) |-> rs[i].time])
    IN  [version |-> version, runs |-> rs, avgTime |-> st.avgTime, minTime |-> st.minTime,
         maxTime |-> st.maxTime, stdDev |-> st.stdDev,
         result |-> rs[Len(rs)].result, reason |-> rs[Len(rs)].reason]

\* result.interactiveBenchmark, for the runs of a completed series
InteractiveSummary(version, rs) ==
    LET st == Stats([i \in 1..Len(rs) |-> rs[i].time])
    IN  [version |-> version, runs |-> rs, avgTime |-> st.avgTime, minTime |-> st.minTime,
         maxTime |-> st.maxTime, stdDev |-> st.stdDev,
         result |-> rs[1].result, reason |-> rs[1].reason]

\* result.versionBenchmark, for the times of a completed series
VersionSummary(version, times) ==
    LET st == Stats(times)
    IN  [version |-> version, runs |-> times, avgTime |-> st.avgTime,
         minTime |-> st.minTime, maxTime |-> st.maxTime, stdDev |-> st.stdDev]

VARIABLES
    phase,              \* "start", "spawned" or "rejected" (pty.spawn threw)
    timeout,            \* options.timeout
    clock,              \* Date.now()
    startTime,
    output,
    signals,
    readyDetected,
    errorDetected,
    trustPromptHandled,
    sessionId,
    timeoutId,          \* the timeout timer
    readyTimer,         \* the 500 ms stabilization timer
    trustTimer,         \* the 100 ms trust-prompt write timer
    result,             \* what the returned promise is settled with
    childExit,          \* NoCode while no exit event was delivered, else the exit code
    kills,              \* calls of ptyProcess.kill()
    writes,             \* calls of ptyProcess.write('\r')
    nChunks,            \* data events delivered
    readyAt             \* clock value at which readyDetected was set

\* the suite runner (src/src/core/benchmark-runner.ts)
VARIABLES
    pc,                 \* where runSuite / benchmarkVersion stands
    config,             \* the BenchmarkConfig runSuite is called with
    allVersions,        \* the installed versions
    versions,           \* filterVersions(allVersions, config)
    vi,                 \* i of the loop over versions
    combined,           \* result of benchmarkVersion: the CombinedBenchmarkResult
    spawnRuns,          \* runs of the version-spawn series
    runs,               \* runs of the interactive series
    results,
    errors,
    sessionIds,
    files,              \* the session files in the project directory, by session id
    inFlight,           \* trials started and not settled
    nTrials,            \* calls of benchmarkInteractive
    suiteResult         \* what runSuite returned: <<>> or <<the BenchmarkSuiteResult>>

trialVars == <<phase, timeout, clock, startTime, output, signals, readyDetected,
               errorDetected, trustPromptHandled, sessionId, timeoutId, readyTimer,
               trustTimer, result, childExit, kills, writes, nChunks, readyAt>>

runnerVars == <<pc, config, allVersions, versions, vi, combined, spawnRuns, runs, results,
                errors, sessionIds, files, inFlight, nTrials, suiteResult>>

\* the host the runner works on, and how the calls it awaited have ended
VARIABLES
    killed,             \* PTY children kill() was called on whose exit has not arrived
    settled,            \* how the awaited benchmarkInteractive() settled: <<>> or <<s>>
    thrown,             \* the error runSuite threw: <<>> or <<message>>
    runDirs,            \* the N of the run-N directories in the results directory
    runNumber,          \* runNumber of each runSuite invocation, 0 before it is computed
    saved               \* the runSuite invocations that have saved their results

hostVars == <<killed, settled, thrown, runDirs, runNumber, saved>>

vars == <<trialVars, runnerVars, hostVars>>

\* the runSuite invocations: the modelled runner's is 1
Invocations == 1..2

\* the optional fields versionBenchmark, interactiveBenchmark and error of a
\* CombinedBenchmarkResult are <<>> when missing and <<value>> when present
Combined(version) ==
    [version |-> version, versionBenchmark |-> <<>>, interactiveBenchmark |-> <<>>,
     error |-> <<>>]

NoVersionFilter == [min |-> <<>>, max |-> <<>>, limit |-> <<>>, include |-> <<>>, exclude |-> <<>>]

\* DEFAULT_CONFIG
DefaultConfig ==
    [benchmark |-> [runsPerVersion |-> 3, runBoth |-> TRUE],
     versions |-> NoVersionFilter,
     storage |-> [cleanupSessions |-> TRUE, keepErrorSessions |-> TRUE]]

\* no suite is running
RunnerIdle ==
    /\ pc = "idle"
    /\ config = DefaultConfig
    /\ allVersions = <<>>
    /\ versions = <<>>
    /\ vi = 0
    /\ combined = Combined(<<>>)
    /\ spawnRuns = <<>>
    /\ runs = <<>>
    /\ results = <<>>
    /\ errors = <<>>
    /\ sessionIds = <<>>
    /\ files = {}
    /\ inFlight = 0
    /\ nTrials = 0
    /\ suiteResult = <<>>

\* no child is left over, nothing was thrown, the results directory is empty
HostIdle ==
    /\ killed = {}
    /\ settled = <<>>
    /\ thrown = <<>>
    /\ runDirs = {}
    /\ runNumber = [i \in Invocations |-> 0]
    /\ saved = {}

Init ==
    /\ phase = "start"
    /\ timeout \in Timeouts
    /\ clock \in StartClocks
    /\ startTime = 0
    /\ output = <<>>
    /\ signals = NoSignals
    /\ readyDetected = FALSE
    /\ errorDetected = FALSE
    /\ trustPromptHandled = FALSE
    /\ sessionId = NoSession
    /\ timeoutId = NoTimer
    /\ readyTimer = NoTimer
    /\ trustTimer = NoTimer
    /\ result = NoResult
    /\ childExit = NoCode
    /\ kills = 0
    /\ writes = 0
    /\ nChunks = 0
    /\ readyAt = 0
    /\ RunnerIdle
    /\ HostIdle

\* a due timer runs when no other armed timer expires before it
Due(t) ==
    /\ t.st = "armed"
    /\ clock >= t.at
    /\ \A u \in {timeoutId, readyTimer, trustTimer} : u.st = "armed" => u.at >= t.at

\* the promise executor: pty.spawn either returns a process or throws
Spawn(ok) ==
    /\ phase = "start"
    /\ IF ok
         THEN /\ phase' = "spawned"
              /\ startTime' = clock
              /\ timeoutId' = SetTimeout(clock, timeout)
         ELSE /\ phase' = "rejected"
              /\ UNCHANGED <<startTime, timeoutId>>
    /\ UNCHANGED <<runnerVars, hostVars>>
    /\ UNCHANGED <<timeout, clock, output, signals, readyDetected, errorDetected,
                   trustPromptHandled, sessionId, readyTimer, trustTimer, result, childExit,
                   kills, writes, nChunks, readyAt>>

\* time passes, up to MaxClock and further while a timer is still to come due
Tick ==
    /\ phase = "spawned"
    /\ \/ clock < MaxClock
       \/ \E t \in {timeoutId, readyTimer, trustTimer} : t.st = "armed" /\ clock < t.at
    /\ clock' = clock + TickMs
    /\ UNCHANGED <<runnerVars, hostVars>>
    /\ UNCHANGED <<phase, timeout, startTime, output, signals, readyDetected,
                   errorDetected, trustPromptHandled, sessionId, timeoutId, readyTimer,
                   trustTimer, result, childExit, kills, writes, nChunks, readyAt>>

\* mutant: the timeout handler resolves without killing the child
TimeoutFireNoKill ==
    /\ phase = "spawned"
    /\ Due(timeoutId)
    /\ timeoutId' = [timeoutId EXCEPT !.st = "fired"]
    /\ result' = Resolve(result, RunResult("timeout", clock - startTime, NoCode, Live))
    /\ UNCHANGED <<runnerVars, hostVars>>
    /\ UNCHANGED <<phase, timeout, clock, startTime, output, signals, readyDetected,
                   errorDetected, trustPromptHandled, sessionId, readyTimer, trustTimer,
                   childExit, kills, writes, nChunks, readyAt>>

\* mutant: the timeout handler kills the child and leaves the resolution to onExit
TimeoutFireKillOnly ==
    /\ phase = "spawned"
    /\ Due(timeoutId)
    /\ timeoutId' = [timeoutId EXCEPT !.st = "fired"]
    /\ kills' = kills + 1
    /\ UNCHANGED <<runnerVars, hostVars>>
    /\ UNCHANGED <<phase, timeout, clock, startTime, output, signals, readyDetected,
                   errorDetected, trustPromptHandled, sessionId, readyTimer, trustTimer,
                   result, childExit, writes, nChunks, readyAt>>

\* the timeout handler
TimeoutFire ==
    /\ phase = "spawned"
    /\ Due(timeoutId)
    /\ timeoutId' = [timeoutId EXCEPT !.st = "fired"]
    /\ kills' = kills + 1
    /\ result' = Resolve(result, RunResult("timeout", clock - startTime, NoCode, Live))
    /\ UNCHANGED <<runnerVars, hostVars>>
    /\ UNCHANGED <<phase, timeout, clock, startTime, output, signals, readyDetected,
                   errorDetected, trustPromptHandled, sessionId, readyTimer, trustTimer,
                   childExit, writes, nChunks, readyAt>>

\* mutant: the ready signals are classified before the error check
OnDataSignalsFirst(data) ==
    /\ phase = "spawned"
    /\ childExit = NoCode
    /\ nChunks < MaxChunks
    /\ LET out == output \o data
           trust == TrustDetected(out, trustPromptHandled)
           sig == Classify(signals, data)
           ready == AllSignals(sig) /\ ~readyDetected
           error == HasErrorPhrase(out) /\ ~errorDetected
       IN  /\ output' = out
           /\ nChunks' = nChunks + 1
           /\ trustPromptHandled' = (trustPromptHandled \/ trust)
           /\ trustTimer' = IF trust THEN SetTimeout(clock, TrustDelayMs) ELSE trustTimer
           /\ sessionId' = IF sessionId = NoSession /\ Contains(out, SessionText)
                              THEN "ab12" ELSE sessionId
           /\ signals' = sig
           /\ readyDetected' = (readyDetected \/ ready)
           /\ readyTimer' = IF ready THEN SetTimeout(clock, StabilizationMs) ELSE readyTimer
           /\ readyAt' = IF ready THEN clock ELSE readyAt
           /\ errorDetected' = (errorDetected \/ error)
           /\ timeoutId' = IF error THEN ClearTimeout(timeoutId) ELSE timeoutId
           /\ kills' = IF error THEN kills + 1 ELSE kills
           /\ result' = IF error
                           THEN Resolve(result,
                                   ErrorResult(clock - startTime, out))
                           ELSE result
    /\ UNCHANGED <<runnerVars, hostVars>>
    /\ UNCHANGED <<phase, timeout, clock, startTime, childExit, writes>>

\* the data handler, for one chunk
OnData(data) ==
    /\ phase = "spawned"
    /\ childExit = NoCode
    /\ nChunks < MaxChunks
    /\ LET out == output \o data
           trust == TrustDetected(out, trustPromptHandled)
       IN  /\ output' = out
           /\ nChunks' = nChunks + 1
           /\ trustPromptHandled' = (trustPromptHandled \/ trust)
           /\ trustTimer' = IF trust THEN SetTimeout(clock, TrustDelayMs) ELSE trustTimer
           /\ sessionId' = IF sessionId = NoSession /\ Contains(out, SessionText)
                              THEN "ab12" ELSE sessionId
           /\ IF HasErrorPhrase(out) /\ ~errorDetected
                THEN /\ errorDetected' = TRUE
                     /\ timeoutId' = ClearTimeout(timeoutId)
                     /\ kills' = kills + 1
                     /\ result' = Resolve(result,
                            ErrorResult(clock - startTime, out))
                     /\ UNCHANGED <<signals, readyDetected, readyTimer, readyAt>>
                ELSE LET sig == Classify(signals, data)
                         ready == AllSignals(sig) /\ ~readyDetected
                     IN  /\ signals' = sig
                         /\ readyDetected' = (readyDetected \/ ready)
                         /\ readyTimer' = IF ready THEN SetTimeout(clock, StabilizationMs)
                                                   ELSE readyTimer
                         /\ readyAt' = IF ready THEN clock ELSE readyAt
                         /\ UNCHANGED <<errorDetected, timeoutId, kills, result>>
    /\ UNCHANGED <<runnerVars, hostVars>>
    /\ UNCHANGED <<phase, timeout, clock, startTime, childExit, writes>>

\* the callback of the stabilization timer
ReadyFire ==
    /\ phase = "spawned"
    /\ Due(readyTimer)
    /\ readyTimer' = [readyTimer EXCEPT !.st = "fired"]
    /\ timeoutId' = ClearTimeout(timeoutId)
    /\ kills' = kills + 1
    /\ result' = Resolve(result, RunResult("ready", clock - startTime, NoCode, Copy(signals)))
    /\ UNCHANGED <<runnerVars, hostVars>>
    /\ UNCHANGED <<phase, timeout, clock, startTime, output, signals, readyDetected,
                   errorDetected, trustPromptHandled, sessionId, trustTimer, childExit,
                   writes, nChunks, readyAt>>

\* the callback of the trust-prompt timer: ptyProcess.write('\r')
TrustFire ==
    /\ phase = "spawned"
    /\ Due(trustTimer)
    /\ trustTimer' = [trustTimer EXCEPT !.st = "fired"]
    /\ writes' = writes + 1
    /\ UNCHANGED <<runnerVars, hostVars>>
    /\ UNCHANGED <<phase, timeout, clock, startTime, output, signals, readyDetected,
                   errorDetected, trustPromptHandled, sessionId, timeoutId, readyTimer,
                   result, childExit, kills, nChunks, readyAt>>

\* mutant: the exit handler looks at the wrong signal
ExitOutcomeByPaste(sig) == IF sig.bracketedPaste THEN "ui_then_exit" ELSE "exited_early"

\* the exit handler's choice between its two results
ExitOutcome(sig) == IF sig.prompt THEN "ui_then_exit" ELSE "exited_early"

\* the exit handler, for the child's exit with exit code `code`
OnExit(code) ==
    /\ phase = "spawned"
    /\ childExit = NoCode
    /\ childExit' = Code(code)
    /\ IF errorDetected \/ readyDetected
         THEN UNCHANGED <<timeoutId, result>>
         ELSE /\ timeoutId' = ClearTimeout(timeoutId)
              /\ result' = Resolve(result,
                     RunResult(ExitOutcome(signals), clock - startTime, Code(code), Copy(signals)))
    /\ UNCHANGED <<runnerVars, hostVars>>
    /\ UNCHANGED <<phase, timeout, clock, startTime, output, signals, readyDetected,
                   errorDetected, trustPromptHandled, sessionId, readyTimer, trustTimer,
                   kills, writes, nChunks, readyAt>>

Next ==
    \/ \E ok \in BOOLEAN : Spawn(ok)
    \/ Tick
    \/ TimeoutFire
    \/ \E data \in Chunks : OnData(data)
    \/ ReadyFire
    \/ TrustFire
    \/ \E code \in ExitCodes : OnExit(code)

Spec == Init /\ [][Next]_vars

\* ------------------------------------------- the error branch on its own
\* the trial at the chunk that completes the accumulated output to a sample
ExtractInit ==
    /\ phase = "sample"
    /\ timeout \in Timeouts
    /\ clock \in StartClocks
    /\ startTime = clock
    /\ output \in Samples
    /\ signals = NoSignals
    /\ readyDetected = FALSE
    /\ errorDetected = FALSE
    /\ trustPromptHandled = FALSE
    /\ sessionId = NoSession
    /\ timeoutId = SetTimeout(clock, timeout)
    /\ readyTimer = NoTimer
    /\ trustTimer = NoTimer
    /\ result = NoResult
    /\ childExit = NoCode
    /\ kills = 0
    /\ writes = 0
    /\ nChunks = 1
    /\ readyAt = 0
    /\ RunnerIdle
    /\ HostIdle

\* the error branch of the data handler
ExtractStep ==
    /\ phase = "sample"
    /\ HasErrorPhrase(output) /\ ~errorDetected
    /\ phase' = "extracted"
    /\ errorDetected' = TRUE
    /\ timeoutId' = ClearTimeout(timeoutId)
    /\ kills' = kills + 1
    /\ result' = Resolve(result, ErrorResult(clock - startTime, output))
    /\ UNCHANGED <<runnerVars, hostVars>>
    /\ UNCHANGED <<timeout, clock, startTime, output, signals, readyDetected,
                   trustPromptHandled, sessionId, readyTimer, trustTimer, childExit,
                   writes, nChunks, readyAt>>

ExtractSpec == ExtractInit /\ [][ExtractStep]_vars

\* timers that are due run, and time passes
FairSpec ==
    Spec /\ WF_vars(Tick) /\ WF_vars(TimeoutFire) /\ WF_vars(ReadyFire) /\ WF_vars(TrustFire)

\* --------------------------------------------------- the legacy detector
\* lib/benchmark-interactive.js, benchmarkStartup: the same trial without a
\* timeout timer and without an answer to the trust prompt

\* output.includes('needs update') || output.includes('newer version')
LegacyHasErrorPhrase(out) ==
    Contains(out, <<"needs update">>) \/ Contains(out, <<"newer version">>)

\* minVersion || EXPECTED_MIN_VERSION, on the output as it came
LegacyMinVersion(out) ==
    IF FirstMatch(out, <<1, 2>>) # <<>> THEN FirstMatch(out, <<1, 2>>)[1]
    ELSE ExpectedMinVersion

\* fullErrorMessage: the line before the first error line up to four lines after it
LegacyErrorMessage(out) ==
    LET lines == SplitLines(out)
        found == {i \in 1..Len(lines) : LegacyHasErrorPhrase(lines[i])}
        errorStartIdx == IF found = {} THEN 0 - 1
                         ELSE (CHOOSE i \in found : \A j \in found : i <= j) - 1
        from == IF errorStartIdx - 1 > 0 THEN errorStartIdx - 1 ELSE 0
    IN  Trim(JoinLines(Slice(lines, from, errorStartIdx + 5)))

\* the result object of the legacy error branch
LegacyErrorResult(t, out) ==
    [outcome |-> "error_detected", time |-> t, exitCode |-> NoCode, signals |-> Absent,
     minVersionRequired |-> <<LegacyMinVersion(out)>>,
     errorMessage |-> <<LegacyErrorMessage(out)>>,
     rawOutput |-> <<>>]

LegacyInit ==
    /\ phase = "start"
    /\ timeout = 0
    /\ clock \in StartClocks
    /\ startTime = 0
    /\ output = <<>>
    /\ signals = NoSignals
    /\ readyDetected = FALSE
    /\ errorDetected = FALSE
    /\ trustPromptHandled = FALSE
    /\ sessionId = NoSession
    /\ timeoutId = NoTimer
    /\ readyTimer = NoTimer
    /\ trustTimer = NoTimer
    /\ result = NoResult
    /\ childExit = NoCode
    /\ kills = 0
    /\ writes = 0
    /\ nChunks = 0
    /\ readyAt = 0
    /\ RunnerIdle
    /\ HostIdle

\* the promise executor: pty.spawn either returns a process or throws
LegacySpawn(ok) ==
    /\ phase = "start"
    /\ IF ok
         THEN /\ phase' = "spawned"
              /\ startTime' = clock
         ELSE /\ phase' = "rejected"
              /\ UNCHANGED startTime
    /\ UNCHANGED <<runnerVars, hostVars>>
    /\ UNCHANGED <<timeout, clock, output, signals, readyDetected, errorDetected,
                   trustPromptHandled, sessionId, timeoutId, readyTimer, trustTimer, result,
                   childExit, kills, writes, nChunks, readyAt>>

\* the data handler, for one chunk
LegacyOnData(data) ==
    /\ phase = "spawned"
    /\ childExit = NoCode
    /\ nChunks < MaxChunks
    /\ LET out == output \o data
       IN  /\ output' = out
           /\ nChunks' = nChunks + 1
           /\ sessionId' = IF sessionId = NoSession /\ Contains(out, SessionText)
                              THEN "ab12" ELSE sessionId
           /\ IF LegacyHasErrorPhrase(out) /\ ~errorDetected
                THEN /\ errorDetected' = TRUE
                     /\ kills' = kills + 1
                     /\ result' = Resolve(result, LegacyErrorResult(clock - startTime, out))
                     /\ UNCHANGED <<signals, readyDetected, readyTimer, readyAt>>
                ELSE LET sig == Classify(signals, data)
                         ready == AllSignals(sig) /\ ~readyDetected
                     IN  /\ signals' = sig
                         /\ readyDetected' = (readyDetected \/ ready)
                         /\ readyTimer' = IF ready THEN SetTimeout(clock, StabilizationMs)
                                                   ELSE readyTimer
                         /\ readyAt' = IF ready THEN clock ELSE readyAt
                         /\ UNCHANGED <<errorDetected, kills, result>>
    /\ UNCHANGED <<runnerVars, hostVars>>
    /\ UNCHANGED <<phase, timeout, clock, startTime, trustPromptHandled, timeoutId,
                   trustTimer, childExit, writes>>

\* the callback of the 500 ms timer
LegacyReadyFire ==
    /\ phase = "spawned"
    /\ Due(readyTimer)
    /\ readyTimer' = [readyTimer EXCEPT !.st = "fired"]
    /\ kills' = kills + 1
    /\ result' = Resolve(result, RunResult("ready", clock - startTime, NoCode, Copy(signals)))
    /\ UNCHANGED <<runnerVars, hostVars>>
    /\ UNCHANGED <<phase, timeout, clock, startTime, output, signals, readyDetected,
                   errorDetected, trustPromptHandled, sessionId, timeoutId, trustTimer,
                   childExit, writes, nChunks, readyAt>>

\* the exit handler's choice between its two results
LegacyExitOutcome(sig, ready) ==
    IF sig.prompt /\ ~ready THEN "ui_then_exit" ELSE "exited_early"

\* the exit handler, for the child's exit with exit code `code`
LegacyOnExit(code) ==
    /\ phase = "spawned"
    /\ childExit = NoCode
    /\ childExit' = Code(code)
    /\ result' = IF errorDetected THEN result
                 ELSE Resolve(result,
                         RunResult(LegacyExitOutcome(signals, readyDetected),
                                   clock - startTime, Code(code), Copy(signals)))
    /\ UNCHANGED <<runnerVars, hostVars>>
    /\ UNCHANGED <<phase, timeout, clock, startTime, output, signals, readyDetected,
                   errorDetected, trustPromptHandled, sessionId, timeoutId, readyTimer,
                   trustTimer, kills, writes, nChunks, readyAt>>

LegacyNext ==
    \/ \E ok \in BOOLEAN : LegacySpawn(ok)
    \/ Tick
    \/ \E data \in Chunks : LegacyOnData(data)
    \/ LegacyReadyFire
    \/ \E code \in ExitCodes : LegacyOnExit(code)

LegacySpec == LegacyInit /\ [][LegacyNext]_vars

\* the timer runs when it is due, and time passes
LegacyFairSpec == LegacySpec /\ WF_vars(Tick) /\ WF_vars(LegacyReadyFire)

\* ------------------------------------------------------- the suite runner
\* no trial of the detailed trial model is running
TrialIdle ==
    /\ phase = "idle"
    /\ timeout = 0
    /\ clock = 0
    /\ startTime = 0
    /\ output = <<>>
    /\ signals = NoSignals
    /\ readyDetected = FALSE
    /\ errorDetected = FALSE
    /\ trustPromptHandled = FALSE
    /\ sessionId = NoSession
    /\ timeoutId = NoTimer
    /\ readyTimer = NoTimer
    /\ trustTimer = NoTimer
    /\ result = NoResult
    /\ childExit = NoCode
    /\ kills = 0
    /\ writes = 0
    /\ nChunks = 0
    /\ readyAt = 0

\* what versionManager.getInstalledVersions() returns: sorted ascending
InstalledVersions == <<<<0, 2, 120>>, <<1, 0, 5>>, <<1, 0, 24>>>>

\* the version filters the suite is run with: one that keeps two versions and
\* one that keeps none
SuiteFilters ==
    { [NoVersionFilter EXCEPT !.exclude = <<<<1, 0, 5>>>>],
      [NoVersionFilter EXCEPT !.min = <<<<3, 0, 0>>>>] }

StorageChoices ==
    { [cleanupSessions |-> TRUE, keepErrorSessions |-> TRUE],
      [cleanupSessions |-> TRUE, keepErrorSessions |-> FALSE],
      [cleanupSessions |-> FALSE, keepErrorSessions |-> TRUE] }

SuiteConfigs ==
    { [benchmark |-> [runsPerVersion |-> n, runBoth |-> b], versions |-> f, storage |-> st] :
        n \in 1..MaxRuns, b \in BOOLEAN, f \in SuiteFilters, st \in StorageChoices }

\* how an awaited benchmarkVersion() call settles: with a time, or rejected
SpawnSettlements ==
    { [kind |-> "resolve", time |-> 100], [kind |-> "reject", time |-> 0] }

\* how an awaited benchmarkInteractive() call settles: with a result (which may
\* carry a session id), or rejected because pty.spawn threw
PtySettlements ==
    { [kind |-> "resolve", result |-> "ready", time |-> 200, session |-> TRUE],
      [kind |-> "resolve", result |-> "error_detected", time |-> 100, session |-> TRUE],
      [kind |-> "resolve", result |-> "timeout", time |-> 301, session |-> FALSE],
      [kind |-> "resolve", result |-> "exited_early", time |-> 0, session |-> FALSE],
      [kind |-> "reject", result |-> "none", time |-> 0, session |-> FALSE] }

\* session files whose unlink fails
LockedChoices == {{}, {1}}

\* the run object a resolved trial hands to the runner; id is the session id
PtyRun(s, id) ==
    [result |-> s.result, reason |-> Reason(s.result), time |-> s.time,
     sessionId |-> IF s.session THEN <<id>> ELSE <<>>]

\* `Interactive benchmark failed: ${errorMsg}`
InteractiveFailed(msg) == <<"Interactive benchmark failed: ", msg>>

\* a string or a missing field taken as a condition
Truthy(opt) == opt # <<>> /\ opt[1] # <<>>

\* the run directories earlier suites have left in the results directory
StoredRuns == {1, 3}

\* Math.max(...runs)
MaxRun(dirs) == CHOOSE m \in dirs : \A n \in dirs : m >= n

\* ResultStore.getNextRunNumber on a results directory with the runs `dirs`
GetNextRunNumber(dirs) == IF dirs # {} THEN MaxRun(dirs) + 1 ELSE 1

SuiteInit ==
    /\ TrialIdle
    /\ pc = "start"
    /\ config \in SuiteConfigs
    /\ allVersions = InstalledVersions
    /\ versions = <<>>
    /\ vi = 0
    /\ combined = Combined(<<>>)
    /\ spawnRuns = <<>>
    /\ runs = <<>>
    /\ results = <<>>
    /\ errors = <<>>
    /\ sessionIds = <<>>
    /\ files = {}
    /\ inFlight = 0
    /\ nTrials = 0
    /\ suiteResult = <<>>
    /\ killed = {}
    /\ settled = <<>>
    /\ thrown = <<>>
    /\ runDirs = StoredRuns
    /\ runNumber = [i \in Invocations |-> 0]
    /\ saved = {}

\* 'No versions match the filter criteria'
NoVersionsMatch == "No versions match the filter criteria"

\* mutant: runSuite goes on with an empty list of versions
FilterStepNoCheck ==
    /\ pc = "start"
    /\ runNumber' = [runNumber EXCEPT ![1] = GetNextRunNumber(runDirs)]
    /\ versions' = FilterVersions(allVersions, config.versions)
    /\ pc' = "loop"
    /\ UNCHANGED <<config, allVersions, vi, combined, spawnRuns, runs, results, errors,
                   sessionIds, files, inFlight, nTrials, suiteResult>>
    /\ UNCHANGED <<killed, settled, thrown, runDirs, saved>>
    /\ UNCHANGED trialVars

\* runSuite up to the loop: the run number is computed, the versions are
\* filtered, none left is an error
FilterStep ==
    /\ pc = "start"
    /\ runNumber' = [runNumber EXCEPT ![1] = GetNextRunNumber(runDirs)]
    /\ versions' = FilterVersions(allVersions, config.versions)
    /\ IF Len(versions') = 0
         THEN /\ pc' = "threw"
              /\ thrown' = <<NoVersionsMatch>>
         ELSE /\ pc' = "loop"
              /\ UNCHANGED thrown
    /\ UNCHANGED <<config, allVersions, vi, combined, spawnRuns, runs, results, errors,
                   sessionIds, files, inFlight, nTrials, suiteResult>>
    /\ UNCHANGED <<killed, settled, runDirs, saved>>
    /\ UNCHANGED trialVars

\* the loop over versions enters benchmarkVersion for versions[i]
BeginVersion ==
    /\ pc = "loop"
    /\ vi < Len(versions)
    /\ combined' = Combined(versions[vi + 1])
    /\ spawnRuns' = <<>>
    /\ runs' = <<>>
    /\ pc' = IF config.benchmark.runBoth THEN "spawnLoop" ELSE "ptyLoop"
    /\ UNCHANGED <<config, allVersions, versions, vi, results, errors, sessionIds, files,
                   inFlight, nTrials, suiteResult>>
    /\ UNCHANGED <<trialVars, hostVars>>

\* the spawn loop calls benchmarkVersion() and awaits it
StartSpawnTrial ==
    /\ pc = "spawnLoop"
    /\ Len(spawnRuns) < config.benchmark.runsPerVersion
    /\ inFlight' = inFlight + 1
    /\ pc' = "spawnAwait"
    /\ UNCHANGED <<config, allVersions, versions, vi, combined, spawnRuns, runs, results,
                   errors, sessionIds, files, nTrials, suiteResult>>
    /\ UNCHANGED <<trialVars, hostVars>>

\* mutant: a failed spawn series is reported with the runs it has
OnSpawnFailurePartial(c, times) ==
    IF times = <<>> THEN c
    ELSE [c EXCEPT !.versionBenchmark = <<VersionSummary(c.version, times)>>]

\* mutant: a failed spawn series marks the version as failed
OnSpawnFailureFatal(c, times) == [c EXCEPT !.error = <<"Version benchmark failed">>]

\* the catch of the spawn series: a warning is logged, the result is left as it is
OnSpawnFailure(c, times) == c

\* the awaited benchmarkVersion() settles
SpawnSettles(s) ==
    /\ pc = "spawnAwait"
    /\ inFlight' = inFlight - 1
    /\ IF s.kind = "resolve"
         THEN /\ spawnRuns' = Append(spawnRuns, s.time)
              /\ pc' = "spawnLoop"
              /\ UNCHANGED combined
         ELSE /\ combined' = OnSpawnFailure(combined, spawnRuns)
              /\ pc' = "ptyLoop"
              /\ UNCHANGED spawnRuns
    /\ UNCHANGED <<config, allVersions, versions, vi, runs, results, errors, sessionIds,
                   files, nTrials, suiteResult>>
    /\ UNCHANGED <<trialVars, hostVars>>

\* the spawn loop ends: versionBenchmark is set
SpawnSeriesDone ==
    /\ pc = "spawnLoop"
    /\ ~(Len(spawnRuns) < config.benchmark.runsPerVersion)
    /\ combined' = [combined EXCEPT
                       !.versionBenchmark = <<VersionSummary(combined.version, spawnRuns)>>]
    /\ pc' = "ptyLoop"
    /\ UNCHANGED <<config, allVersions, versions, vi, spawnRuns, runs, results, errors,
                   sessionIds, files, inFlight, nTrials, suiteResult>>
    /\ UNCHANGED <<trialVars, hostVars>>

\* mutant: the trial is started without awaiting it
StartPtyTrialNoAwait ==
    /\ pc = "ptyLoop"
    /\ Len(runs) + inFlight < config.benchmark.runsPerVersion
    /\ inFlight' = inFlight + 1
    /\ nTrials' = nTrials + 1
    /\ pc' = IF Len(runs) + inFlight' < config.benchmark.runsPerVersion
               THEN "ptyLoop" ELSE "ptyAwait"
    /\ settled' = <<>>
    /\ UNCHANGED <<config, allVersions, versions, vi, combined, spawnRuns, runs, results,
                   errors, sessionIds, files, suiteResult>>
    /\ UNCHANGED <<killed, thrown, runDirs, runNumber, saved>>
    /\ UNCHANGED trialVars

\* the interactive loop calls benchmarkInteractive() and awaits it
StartPtyTrial ==
    /\ pc = "ptyLoop"
    /\ Len(runs) < config.benchmark.runsPerVersion
    /\ inFlight' = inFlight + 1
    /\ nTrials' = nTrials + 1
    /\ pc' = "ptyAwait"
    /\ settled' = <<>>
    /\ UNCHANGED <<config, allVersions, versions, vi, combined, spawnRuns, runs, results,
                   errors, sessionIds, files, suiteResult>>
    /\ UNCHANGED <<killed, thrown, runDirs, runNumber, saved>>
    /\ UNCHANGED trialVars

\* the resolutions of a trial that call kill() on a child that has not exited
ResolvedByKill(outcome) == outcome \in {"ready", "error_detected", "timeout"}

\* mutant: a timed-out trial makes the await throw
FulfilsUnlessTimeout(s) == s.kind = "resolve" /\ s.result # "timeout"

\* the awaited benchmarkInteractive() returns a run (it does not throw)
Fulfils(s) == s.kind = "resolve"

\* mutant: the failed version gets no entry in results
RecordFailureDropped(rs, version, msg) == rs

\* results.push({ version, error: errorMsg })
RecordFailure(rs, version, msg) == Append(rs, [Combined(version) EXCEPT !.error = <<msg>>])

\* the awaited benchmarkInteractive() settles.  A resolved run is pushed; a
\* rejection leaves the loop, is rethrown by benchmarkVersion and caught by
\* runSuite, which records the version as failed and goes on with the next one.
\* The child of a trial that reported a session id has written its session file.
\* The child of a trial that resolved on a timer or on an error phrase was sent
\* kill(); its exit arrives later.
PtySettles(s) ==
    /\ pc = "ptyAwait"
    /\ inFlight' = inFlight - 1
    /\ settled' = <<s>>
    /\ killed' = IF s.kind = "resolve" /\ ResolvedByKill(s.result)
                   THEN killed \cup {nTrials} ELSE killed
    /\ IF Fulfils(s)
         THEN /\ runs' = Append(runs, PtyRun(s, nTrials))
              /\ files' = IF s.session THEN files \cup {nTrials} ELSE files
              /\ pc' = "ptyLoop"
              /\ UNCHANGED <<vi, results, errors>>
         ELSE LET errorMsg == InteractiveFailed("spawn failed")
              IN  /\ errors' = Append(errors, [version |-> combined.version,
                                               error |-> errorMsg])
                  /\ results' = RecordFailure(results, combined.version, errorMsg)
                  /\ vi' = vi + 1
                  /\ pc' = "loop"
                  /\ UNCHANGED <<runs, files>>
    /\ UNCHANGED <<config, allVersions, versions, combined, spawnRuns, sessionIds, nTrials,
                   suiteResult>>
    /\ UNCHANGED <<thrown, runDirs, runNumber, saved>>
    /\ UNCHANGED trialVars

\* the exit of a child that was sent kill() arrives
ChildExits(id) ==
    /\ id \in killed
    /\ killed' = killed \ {id}
    /\ UNCHANGED <<settled, thrown, runDirs, runNumber, saved>>
    /\ UNCHANGED <<trialVars, runnerVars>>

\* the session ids of the runs that have one, in run order
RECURSIVE RunSessionIds(_)
RunSessionIds(rs) ==
    IF rs = <<>> THEN <<>> ELSE rs[1].sessionId \o RunSessionIds(Tail(rs))

\* the interactive loop ends: interactiveBenchmark is set, benchmarkVersion
\* returns, runSuite pushes the result and collects the session ids
PtySeriesDone ==
    /\ pc = "ptyLoop"
    /\ ~(Len(runs) < config.benchmark.runsPerVersion)
    /\ LET res == [combined EXCEPT
                      !.interactiveBenchmark = <<InteractiveSummary(combined.version, runs)>>]
       IN  /\ combined' = res
           /\ results' = Append(results, res)
           /\ sessionIds' = sessionIds \o RunSessionIds(res.interactiveBenchmark[1].runs)
    /\ vi' = vi + 1
    /\ pc' = "loop"
    /\ UNCHANGED <<config, allVersions, versions, spawnRuns, runs, errors, files, inFlight,
                   nTrials, suiteResult>>
    /\ UNCHANGED <<trialVars, hostVars>>

\* cleanupSessions(sessionIds, cwd): every listed session file that exists is
\* unlinked; the unlink of the files in `locked` fails
CleanupSessions(fs, ids, locked) ==
    fs \ {id \in fs : Includes(ids, id) /\ id \notin locked}

\* saveSuiteResults and saveMetadata: mkdir run-N, write its files
SaveRun(dirs, n) == dirs \cup {n}

\* the loop over versions has ended: session cleanup, metadata, the results are
\* saved under the run number, return
Finish(locked) ==
    /\ pc = "loop"
    /\ ~(vi < Len(versions))
    /\ files' = IF config.storage.cleanupSessions /\ Len(sessionIds) > 0
                  THEN CleanupSessions(files, sessionIds, locked) ELSE files
    /\ suiteResult' =
          <<[results |-> results,
             errors |-> errors,
             metadata |->
                [totalVersions |-> Len(versions),
                 successfulVersions |->
                    Cardinality({j \in 1..Len(results) : ~Truthy(results[j].error)}),
                 failedVersions |->
                    Cardinality({j \in 1..Len(results) : Truthy(results[j].error)})]]>>
    /\ runDirs' = SaveRun(runDirs, runNumber[1])
    /\ saved' = saved \cup {1}
    /\ pc' = "returned"
    /\ UNCHANGED <<config, allVersions, versions, vi, combined, spawnRuns, runs, results,
                   errors, sessionIds, inFlight, nTrials>>
    /\ UNCHANGED <<killed, settled, thrown, runNumber>>
    /\ UNCHANGED trialVars

SuiteNext ==
    \/ FilterStep
    \/ BeginVersion
    \/ StartSpawnTrial
    \/ \E s \in SpawnSettlements : SpawnSettles(s)
    \/ SpawnSeriesDone
    \/ StartPtyTrial
    \/ \E s \in PtySettlements : PtySettles(s)
    \/ PtySeriesDone
    \/ \E locked \in LockedChoices : Finish(locked)

SuiteSpec == SuiteInit /\ [][SuiteNext]_vars

\* ------------------------------------------ the runner and its children
\* the suite with the interactive series only, and the exits of the children
ChildInit ==
    /\ SuiteInit
    /\ ~config.benchmark.runBoth
    /\ config.storage = DefaultConfig.storage

ChildNext ==
    \/ FilterStep
    \/ BeginVersion
    \/ StartPtyTrial
    \/ \E s \in PtySettlements : PtySettles(s)
    \/ PtySeriesDone
    \/ \E locked \in LockedChoices : Finish(locked)
    \/ \E id \in killed : ChildExits(id)

ChildSpec == ChildInit /\ [][ChildNext]_vars

\* ------------------------------------------------------ the result store
\* runSuite invocation i asks the result store for its run number
CallRunSuite(i) ==
    /\ pc = "idle"
    /\ runNumber[i] = 0
    /\ runNumber' = [runNumber EXCEPT ![i] = GetNextRunNumber(runDirs)]
    /\ UNCHANGED <<killed, settled, thrown, runDirs, saved>>
    /\ UNCHANGED <<trialVars, runnerVars>>

\* runSuite invocation i, its benchmarks done, saves its results
SaveResults(i) ==
    /\ pc = "idle"
    /\ runNumber[i] # 0
    /\ i \notin saved
    /\ runDirs' = SaveRun(runDirs, runNumber[i])
    /\ saved' = saved \cup {i}
    /\ UNCHANGED <<killed, settled, thrown, runNumber>>
    /\ UNCHANGED <<trialVars, runnerVars>>

\* runSuite is called twice on a results directory earlier runs have filled;
\* the invocations are taken as their accesses to the result store
StoreInit ==
    /\ TrialIdle
    /\ RunnerIdle
    /\ killed = {}
    /\ settled = <<>>
    /\ thrown = <<>>
    /\ runDirs \in SUBSET (1..MaxStored)
    /\ runNumber = [i \in Invocations |-> 0]
    /\ saved = {}

StoreNext ==
    \/ \E i \in Invocations : CallRunSuite(i)
    \/ \E i \in Invocations : SaveResults(i)

StoreSpec == StoreInit /\ [][StoreNext]_vars

\* ---------------------------------------------- the summary on its own
\* the trial times a series is made of
TimeValues == {100, 200, 201, 300}

RECURSIVE TimeLists(_)
\* the non-empty lists of at most n times
TimeLists(n) ==
    IF n = 0 THEN {}
    ELSE {<<t>> : t \in TimeValues}
         \cup TimeLists(n - 1)
         \cup {Append(ts, t) : ts \in TimeLists(n - 1), t \in TimeValues}

\* benchmarkVersion at the end of the interactive loop of its only version,
\* with the runs the trials have given
StatsInit ==
    /\ TrialIdle
    /\ pc = "ptyLoop"
    /\ \E ts \in TimeLists(MaxTimes) :
          /\ runs = [i \in 1..Len(ts) |->
                        [result |-> "ready", reason |-> Reason("ready"), time |-> ts[i],
                         sessionId |-> <<>>]]
          /\ config = [DefaultConfig EXCEPT !.benchmark.runsPerVersion = Len(ts),
                                            !.benchmark.runBoth = FALSE]
          /\ nTrials = Len(ts)
    /\ allVersions = <<<<1, 0, 24>>>>
    /\ versions = <<<<1, 0, 24>>>>
    /\ vi = 0
    /\ combined = Combined(<<1, 0, 24>>)
    /\ spawnRuns = <<>>
    /\ results = <<>>
    /\ errors = <<>>
    /\ sessionIds = <<>>
    /\ files = {}
    /\ inFlight = 0
    /\ suiteResult = <<>>
    /\ HostIdle

StatsSpec == StatsInit /\ [][PtySeriesDone]_vars

\* ----------------------------------------------- the filter on its own
RECURSIVE Arrangements(_)
\* the arrays without repetition over a set of versions
Arrangements(S) ==
    IF S = {} THEN {<<>>}
    ELSE UNION {{<<x>> \o a : a \in Arrangements(S \ {x})} : x \in S}

\* the installed-version arrays filterVersions is called with, in any order
InstalledArrays == UNION {Arrangements(S) : S \in SUBSET VersionPool}

\* the version filters: min and max may name versions that are not installed
FilterConfigs ==
    [min : {<<>>, <<<<1, 0, 5>>>>, <<<<1, 0, 10>>>>},
     max : {<<>>, <<<<1, 0, 24>>>>, <<<<1, 0, 5>>>>},
     limit : {<<>>} \cup {<<n>> : n \in 1..MaxLimit},
     include : {<<>>, <<<<>>>>, <<<<<<2, 0, 1>>, <<1, 0, 5>>>>>>},
     exclude : {<<>>, <<<<1, 0, 24>>>>, <<<<0, 2, 120>>, <<9, 9, 9>>>>}]

\* runSuite before it filters
FilterInit ==
    /\ TrialIdle
    /\ pc = "start"
    /\ allVersions \in InstalledArrays
    /\ \E f \in FilterConfigs : config = [DefaultConfig EXCEPT !.versions = f]
    /\ versions = <<>>
    /\ vi = 0
    /\ combined = Combined(<<>>)
    /\ spawnRuns = <<>>
    /\ runs = <<>>
    /\ results = <<>>
    /\ errors = <<>>
    /\ sessionIds = <<>>
    /\ files = {}
    /\ inFlight = 0
    /\ nTrials = 0
    /\ suiteResult = <<>>
    /\ HostIdle

FilterSpec == FilterInit /\ [][FilterStep]_vars

TypeOK ==
    /\ phase \in {"start", "spawned", "rejected", "sample", "extracted", "idle"}
    /\ kills \in 0..3
    /\ writes \in 0..1

\* ---------------------------------------------------------------- claims
Pending == result.outcome = "pending"

\* the chunk a data step appended
Appended == SubSeq(output', Len(output) + 1, Len(output'))

DataStep == nChunks' = nChunks + 1

ExitStep == childExit = NoCode /\ childExit' # NoCode

\* the four phrases, as the specification lists them
GatePhrases ==
    {<<"needs update">>, <<"newer version">>, <<"requ", "ires">>, <<"minimum version">>}

HasGatePhrase(s) == \E p \in GatePhrases : Contains(s, p)

\* C1: once the trial has resolved, no later chunk, exit event or timer changes the
\* result the caller gets (outcome, elapsed time, exit code): first resolution wins.
C1_FirstResolutionWins ==
    [][~Pending => /\ result'.outcome = result.outcome
                   /\ result'.time = result.time
                   /\ result'.exitCode = result.exitCode]_vars

\* a trial resolved Ready in which an error phrase arrived afterwards
C1_Witness == result.outcome = "ready" /\ errorDetected

\* C2 (as claimed): a Ready result's elapsed time is the time from spawn to the
\* moment the third signal became true, without the 500 ms stabilization wait.
C2_ReadyTimeIsSignalTime ==
    result.outcome = "ready" => result.time = readyAt - startTime

\* C3 (as claimed): a child that exits after the signals completed and before the
\* stabilization delay elapsed makes the trial resolve UiThenExit with its exit code.
C3_ExitInWindowIsUiThenExit ==
    [][(ExitStep /\ Pending /\ readyDetected /\ readyTimer.st = "armed"
            /\ clock < readyTimer.at)
        => (result'.outcome = "ui_then_exit" /\ result'.exitCode = childExit')]_vars

\* C4: a child that exits while the trial is unresolved and the three signals are
\* not complete gives UiThenExit if the prompt signal is true, ExitedEarly if it
\* is not, and the result carries the child's exit code.
C4_ExitBeforeSignals ==
    [][(ExitStep /\ Pending /\ ~AllSignals(signals))
        => /\ result'.outcome = (IF signals.prompt THEN "ui_then_exit" ELSE "exited_early")
           /\ result'.exitCode = childExit']_vars

\* a UiThenExit result with exit code 1, with a signal other than prompt also seen
C4_Witness ==
    /\ result.outcome = "ui_then_exit"
    /\ result.exitCode = Code(1)
    /\ ~signals.bracketedPaste

\* C5: while the trial is unresolved the timeout timer stays armed (also in the
\* stabilization window), and when it fires on an unresolved trial the trial
\* resolves Timeout and kill is called.
C5_TimeoutResolves ==
    /\ [](phase = "spawned" /\ Pending => timeoutId.st = "armed")
    /\ [][(timeoutId.st = "armed" /\ timeoutId'.st = "fired" /\ Pending)
            => (result'.outcome = "timeout" /\ kills' = kills + 1)]_vars

\* a Timeout resolution inside the stabilization window
C5_Witness ==
    result.outcome = "timeout" /\ readyDetected /\ readyTimer.st = "armed" /\ kills = 1

\* C6: every trial whose spawn succeeded eventually resolves, and the timeout
\* timer is never found cleared on a trial that is still unresolved.
C6_EventuallyResolves ==
    /\ (phase = "spawned") ~> ~Pending
    /\ [](timeoutId.st = "cleared" => ~Pending)

\* a silent child that never exits, resolved by the timeout
C6_Witness ==
    result.outcome = "timeout" /\ output = <<>> /\ childExit = NoCode

\* C7 (as claimed): a resolved trial has called kill exactly once.
C7_KillExactlyOnce == ~Pending => kills = 1

\* C8 (as claimed): a failed spawn gives a result with outcome Failed.
C8_SpawnFailureIsFailed == phase = "rejected" => result.outcome = "failed"

\* C9: a chunk that both brings an error phrase into the accumulated output and
\* completes the three signals resolves the trial ErrorDetected, and no
\* stabilization timer is started.
C9_ErrorBeforeSignals ==
    [][(DataStep /\ Pending /\ ~HasGatePhrase(output) /\ HasGatePhrase(output')
            /\ ~AllSignals(signals) /\ AllSignals(Classify(signals, Appended)))
        => /\ result'.outcome = "error_detected"
           /\ readyTimer'.st = "none"
           /\ ~readyDetected']_vars

\* ErrorDetected on a chunk that ends with the prompt, the other two signals seen
C9_Witness ==
    /\ result.outcome = "error_detected"
    /\ signals.bracketedPaste /\ signals.focusEvents
    /\ Len(output) >= 2
    /\ output[Len(output) - 1] = ">" /\ output[Len(output)] = " "
    /\ readyTimer.st = "none"

\* C10: the chunk after which the accumulated output of an unresolved trial holds
\* one of the four phrases resolves the trial ErrorDetected within its handling,
\* calls kill while the child has not exited and cancels the timeout timer.
C10_ErrorResolvesAtOnce ==
    [][(DataStep /\ Pending /\ HasGatePhrase(output'))
        => /\ result'.outcome = "error_detected"
           /\ kills' = kills + 1
           /\ childExit' = NoCode
           /\ timeoutId.st = "armed" /\ timeoutId'.st = "cleared"]_vars

\* ErrorDetected on "requires" that arrived in two chunks
C10_Witness ==
    /\ result.outcome = "error_detected"
    /\ Contains(output, <<"requ", "ires">>)
    /\ kills = 1
    /\ timeoutId.st = "cleared"

\* the five phrasings of a version token v, in their order, as they stand in a
\* cleaned output (with the letter-case and whitespace variants the samples use)
PhrasingForms(k, v) ==
    CASE k = 1 -> {<<v, " ", "or higher">>, <<v, " ", " ", "OR HIGHER">>}
      [] k = 2 -> {<<"version", " ", "(", v>>, <<"newer version", "\n", "(", v>>}
      [] k = 3 -> {<<"requ", "ires", " ", v>>}
      [] k = 4 -> {<<"minimum", " ", "version", ":", " ", v>>, <<"minimum version", " ", v>>}
      [] k = 5 -> {<<v, "+">>}

InPhrasing(k, v) == \E f \in PhrasingForms(k, v) : Contains(StripAnsi(output), f)

TokenCount == Cardinality({i \in 1..Len(output) : output[i] \in {"1.0.24", "1.0.30"}})

\* C11: the first of the five phrasings, in their fixed order, that occurs in the
\* cleaned output decides minVersionRequired; an output with a single token in
\* one of the phrasings gives that token.
C11_FirstPatternDecides ==
    phase = "extracted" =>
        \A k \in 1..5, v \in {"1.0.24", "1.0.30"} :
            /\ (/\ InPhrasing(k, v)
                /\ \A j \in 1..(k - 1), w \in {"1.0.24", "1.0.30"} : ~InPhrasing(j, w)
                /\ \A w \in {"1.0.24", "1.0.30"} \ {v} : ~InPhrasing(k, w))
               => result.minVersionRequired = <<v>>
            /\ (TokenCount = 1 /\ InPhrasing(k, v)) => result.minVersionRequired = <<v>>

\* "v1.0.24+" stands before "v1.0.30 or higher" in the text; the earlier pattern wins
C11_Witness ==
    /\ phase = "extracted"
    /\ output = <<"Error:", " ", "needs update", " ", "v", "1.0.24", "+", "\n",
                  "v", "1.0.30", " ", "or higher", "\n">>
    /\ result.minVersionRequired = <<"1.0.30">>

\* C12: when none of the five phrasings occurs in the cleaned output,
\* minVersionRequired is "1.0.24".
C12_FallbackVersion ==
    (phase = "extracted"
        /\ \A k \in 1..5, v \in {"1.0.24", "1.0.30"} : ~InPhrasing(k, v))
    => result.minVersionRequired = <<"1.0.24">>

\* an error output whose only token, 1.0.30, stands in none of the phrasings
C12_Witness ==
    /\ phase = "extracted"
    /\ output = <<"Error:", " ", "needs update", " ", "Requ", "ires", " ", "v", "1.0.30", "\n">>
    /\ result.minVersionRequired = <<"1.0.24">>

\* C13: a chunk of an output without error phrase sets every flag whose text it
\* delivers whatever the other flags are, so the three texts complete the signals
\* in any order, and completion is reached at the chunk that delivers the last
\* missing one.
C13_AnyOrderCompletes ==
    [][(DataStep /\ ~HasGatePhrase(output'))
        => /\ signals'.bracketedPaste
                = (signals.bracketedPaste \/ Contains(Appended, <<"ESC[?2", "004h">>))
           /\ signals'.focusEvents
                = (signals.focusEvents \/ Contains(Appended, <<"ESC[?1", "004h">>))
           /\ (signals.prompt \/ Contains(Appended, <<">", " ">>)) => signals'.prompt
           /\ (~AllSignals(signals) /\ AllSignals(signals'))
                => (~readyDetected /\ readyDetected' /\ readyAt' = clock
                    /\ readyTimer'.st = "armed")
           /\ readyDetected' => AllSignals(signals')]_vars

\* the signals completed in the order prompt, focus events, bracketed paste
C13_Witness ==
    /\ output = <<">", " ", "ESC[?1", "004h", "ESC[?2", "004h">>
    /\ nChunks = 3
    /\ AllSignals(signals) /\ readyDetected /\ readyTimer.st = "armed"

\* C14 (as claimed): a bracketed-paste sequence that lies in the accumulated output
\* is detected, also when a chunk boundary cuts it.
C14_SplitSignalDetected ==
    (~HasGatePhrase(output) /\ Contains(output, <<"ESC[?2", "004h">>))
    => signals.bracketedPaste

\* C15: a signal flag that is true stays true.
C15_SignalsSticky ==
    [][/\ signals.bracketedPaste => signals'.bracketedPaste
       /\ signals.focusEvents => signals'.focusEvents
       /\ signals.prompt => signals'.prompt]_vars

\* prompt still true after a later chunk that holds no prompt
C15_Witness ==
    /\ output = <<">", " ", "ESC[?1", "004h">>
    /\ nChunks = 2
    /\ signals.prompt /\ signals.focusEvents

HasTrustText(s) == Contains(s, <<"Do you trust the files">>)

\* C16: the chunk that brings the trust-prompt text into the output schedules the
\* carriage return 100 ms later; later chunks schedule nothing; the write happens
\* no earlier than scheduled, once, and it does happen; without the text nothing
\* is scheduled or written.
C16_TrustAnsweredOnce ==
    /\ [][(DataStep /\ ~HasTrustText(output) /\ HasTrustText(output'))
            => trustTimer' = [st |-> "armed", at |-> clock + 100]]_vars
    /\ [][(DataStep /\ HasTrustText(output)) => trustTimer' = trustTimer]_vars
    /\ [][writes' # writes
            => (writes = 0 /\ writes' = 1 /\ trustTimer.st = "armed"
                /\ clock >= trustTimer.at)]_vars
    /\ [](~HasTrustText(output) => (writes = 0 /\ trustTimer.st = "none"))
    /\ HasTrustText(output) ~> (writes = 1)

\* one write although two more chunks arrived with the text in the buffer
C16_Witness ==
    /\ writes = 1
    /\ nChunks >= 3
    /\ output[1] = "Do you trust the files"

\* the signals a caller reads from the result
ResultSignals == IF result.signals.ref = "live" THEN signals ELSE result.signals.val

\* C17 (as claimed): the signals of a resolved result do not change afterwards.
C17_SignalsSnapshot == [][~Pending => ResultSignals' = ResultSignals]_vars

\* C18 (as claimed): every result has a signals object and one of the six outcomes.
C18_SignalsDefined ==
    ~Pending =>
        /\ result.signals.ref # "absent"
        /\ result.outcome \in {"ready", "error_detected", "ui_then_exit",
                                "exited_early", "timeout", "failed"}

\* C19 (as claimed): every result has an elapsed time greater than 0.
C19_PositiveTime == ~Pending => result.time > 0

\* C20: exitCode is present only in UiThenExit and ExitedEarly results, and
\* minVersionRequired, errorMessage and rawOutput only in ErrorDetected results.
C20_OptionalFields ==
    /\ result.exitCode # <<>> => result.outcome \in {"ui_then_exit", "exited_early"}
    /\ result.minVersionRequired # <<>> => result.outcome = "error_detected"
    /\ result.errorMessage # <<>> => result.outcome = "error_detected"
    /\ result.rawOutput # <<>> => result.outcome = "error_detected"

\* a Timeout result after which the child's exit event arrived: no exit code
C20_Witness ==
    /\ result.outcome = "timeout"
    /\ childExit # <<>>
    /\ result.exitCode = <<>> /\ result.minVersionRequired = <<>>

\* C21: a Ready result carries a snapshot in which the three signals are true, and
\* when a trial resolves Ready the texts of the three signals have arrived.
C21_ReadyHasAllSignals ==
    result.outcome = "ready" =>
        /\ result.signals.ref = "copy"
        /\ result.signals.val
             = [bracketedPaste |-> TRUE, focusEvents |-> TRUE, prompt |-> TRUE]
        /\ Contains(output, <<"ESC[?2", "004h">>)
        /\ Contains(output, <<"ESC[?1", "004h">>)
        /\ \E i \in 1..Len(output) : output[i] = ">"
        /\ readyDetected /\ clock >= readyAt + 500

\* Ready after the three signals came in three chunks, the prompt first
C21_Witness ==
    /\ result.outcome = "ready"
    /\ output = <<">", " ", "ESC[?1", "004h", "ESC[?2", "004h">>
    /\ childExit = <<>>

\* the entries of results that carry an interactiveBenchmark
WithInteractive == {j \in 1..Len(results) : results[j].interactiveBenchmark # <<>>}

\* C22 (as claimed): when runSuite returns, runsPerVersion trials were attempted
\* for every version and every version has its run list; a failed trial did not
\* discard the version.
C22_FailedTrialKept ==
    pc = "returned" =>
        /\ nTrials = Len(versions) * config.benchmark.runsPerVersion
        /\ \A j \in 1..Len(results) :
              /\ results[j].interactiveBenchmark # <<>>
              /\ Len(results[j].interactiveBenchmark[1].runs)
                    = config.benchmark.runsPerVersion

\* C23: the returned suite result has one entry per filtered version, in filter
\* order; totalVersions = number of entries = successful + failed; failedVersions
\* = number of errors, each error standing for the entry of its version; the
\* suite throws only when no version passes the filter.
C23_OneEntryPerVersion ==
    /\ pc = "threw" => versions = <<>>
    /\ pc = "returned" =>
          LET r == suiteResult[1]
              failed == {j \in 1..Len(r.results) : r.results[j].error # <<>>}
          IN  /\ versions = <<<<0, 2, 120>>, <<1, 0, 24>>>>
              /\ Len(r.results) = Len(versions)
              /\ \A j \in 1..Len(versions) : r.results[j].version = versions[j]
              /\ r.metadata.totalVersions = Len(r.results)
              /\ r.metadata.totalVersions
                    = r.metadata.successfulVersions + r.metadata.failedVersions
              /\ r.metadata.failedVersions = Len(r.errors)
              /\ r.metadata.failedVersions = Cardinality(failed)
              /\ \A j \in failed :
                    \E k \in 1..Len(r.errors) :
                        /\ r.errors[k].version = r.results[j].version
                        /\ <<r.errors[k].error>> = r.results[j].error
              /\ \A j \in 1..Len(r.results) \ failed :
                    r.results[j].interactiveBenchmark # <<>>

\* the first version failed and the second was benchmarked
C23_Witness ==
    /\ pc = "returned"
    /\ Len(suiteResult[1].results) = 2
    /\ suiteResult[1].results[1].error # <<>>
    /\ suiteResult[1].results[2].interactiveBenchmark # <<>>
    /\ suiteResult[1].metadata.failedVersions = 1

\* C24: a versionBenchmark, and an interactiveBenchmark, always has a run list of
\* exactly runsPerVersion entries, in the result under construction as in the
\* results collected.
C24_CompleteSeriesOnly ==
    \A c \in {combined} \cup {results[j] : j \in 1..Len(results)} :
        /\ c.versionBenchmark # <<>>
              => Len(c.versionBenchmark[1].runs) = config.benchmark.runsPerVersion
        /\ c.interactiveBenchmark # <<>>
              => Len(c.interactiveBenchmark[1].runs) = config.benchmark.runsPerVersion

\* a spawn series that failed at its second run: no versionBenchmark is reported,
\* the interactive series is
C24_Witness ==
    /\ pc = "returned"
    /\ config.benchmark.runsPerVersion = 2
    /\ spawnRuns = <<100>>
    /\ combined.versionBenchmark = <<>>
    /\ combined.interactiveBenchmark # <<>>

\* C25: at most one trial is unsettled at any time: a trial is started only when
\* none is unsettled, and the loop over versions moves only when none is.
C25_Sequential ==
    /\ [](inFlight <= 1)
    /\ [][inFlight' > inFlight => inFlight = 0]_vars
    /\ [][(vi' # vi \/ combined'.version # combined.version) => inFlight' = 0]_vars

\* two versions with two interactive trials each have run
C25_Witness ==
    /\ pc = "returned"
    /\ nTrials = 4
    /\ Len(results) = 2

\* C26: the result and reason of an interactiveBenchmark are those of its first
\* run.
C26_FirstRunDecides ==
    \A j \in WithInteractive :
        LET ib == results[j].interactiveBenchmark[1]
        IN  ib.result = ib.runs[1].result /\ ib.reason = ib.runs[1].reason

\* a series whose first run is Ready and whose second is Timeout: summary Ready
C26_Witness ==
    \E j \in WithInteractive :
        LET ib == results[j].interactiveBenchmark[1]
        IN  /\ Len(ib.runs) = 2
            /\ ib.runs[1].result = "ready" /\ ib.runs[2].result = "timeout"
            /\ ib.result = "ready"

\* C30 (as claimed): with keepErrorSessions set, the session file of every
\* error_detected trial is still there when runSuite returns.
C30_ErrorSessionsKept ==
    (pc = "returned" /\ config.storage.keepErrorSessions) =>
        \A j \in WithInteractive :
            \A k \in 1..Len(results[j].interactiveBenchmark[1].runs) :
                LET run == results[j].interactiveBenchmark[1].runs[k]
                IN  (run.result = "error_detected" /\ run.sessionId # <<>>)
                        => run.sessionId[1] \in files

\* the times of the runs of an interactiveBenchmark
TimesOf(ib) == [i \in 1..Len(ib.runs) |-> ib.runs[i].time]

\* n * n * (population variance) of a list of times
ScaledVariance(ts) == Len(ts) * Sum([i \in 1..Len(ts) |-> ts[i] * ts[i]]) - Sum(ts) * Sum(ts)

\* C27 (as claimed): avgTime is the arithmetic mean, minTime and maxTime the
\* minimum and maximum; [100, 200, 300] gives 200, 100, 300 and a standard
\* deviation that is 81.6 to one decimal; minTime <= avgTime <= maxTime.
C27_ExactMean ==
    \A j \in WithInteractive :
        LET ib == results[j].interactiveBenchmark[1]
            ts == TimesOf(ib)
        IN  /\ ib.avgTime * Len(ts) = Sum(ts)
            /\ \A i \in 1..Len(ts) : ib.minTime <= ts[i] /\ ts[i] <= ib.maxTime
            /\ ib.minTime <= ib.avgTime /\ ib.avgTime <= ib.maxTime
            /\ ts = <<100, 200, 300>>
                  => (ib.avgTime = 200 /\ ib.minTime = 100 /\ ib.maxTime = 300
                      /\ 1631 <= 20 * ib.stdDev /\ 20 * ib.stdDev < 1633)

\* C27 (amended): avgTime is the arithmetic mean rounded to the nearest integer
\* (a half rounds up), stdDev the population standard deviation rounded to the
\* nearest integer, minTime and maxTime the minimum and maximum; [100, 200, 300]
\* gives 200, 100, 300 and 82; minTime <= avgTime <= maxTime.
C27_RoundedStats ==
    \A j \in WithInteractive :
        LET ib == results[j].interactiveBenchmark[1]
            ts == TimesOf(ib)
            n == Len(ts)
            q == ScaledVariance(ts)
            r == ib.stdDev
        IN  /\ 2 * n * ib.avgTime <= 2 * Sum(ts) + n
            /\ 2 * Sum(ts) + n < 2 * n * ib.avgTime + 2 * n
            /\ \E i \in 1..n : ib.minTime = ts[i]
            /\ \E i \in 1..n : ib.maxTime = ts[i]
            /\ \A i \in 1..n : ib.minTime <= ts[i] /\ ts[i] <= ib.maxTime
            /\ r >= 0
            /\ r > 0 => (2 * r - 1) * (2 * r - 1) * n * n <= 4 * q
            /\ 4 * q < (2 * r + 1) * (2 * r + 1) * n * n
            /\ ib.minTime <= ib.avgTime /\ ib.avgTime <= ib.maxTime
            /\ ts = <<100, 200, 300>>
                  => (ib.avgTime = 200 /\ ib.minTime = 100 /\ ib.maxTime = 300
                      /\ ib.stdDev = 82)

\* the summary of [100, 201]: the mean 150.5 is reported as 151, the deviation
\* 50.5 as 51
C27_Witness ==
    \E j \in WithInteractive :
        LET ib == results[j].interactiveBenchmark[1]
        IN  /\ TimesOf(ib) = <<100, 201>>
            /\ ib.avgTime = 151 /\ ib.stdDev = 51

\* a <= b in the numeric order of (major, minor, patch)
VersionLeq(a, b) ==
    \/ a[1] < b[1]
    \/ a[1] = b[1] /\ a[2] < b[2]
    \/ a[1] = b[1] /\ a[2] = b[2] /\ a[3] <= b[3]

Elements(arr) == {arr[i] : i \in 1..Len(arr)}

IncludeGiven == config.versions.include # <<>> /\ config.versions.include[1] # <<>>

\* the installed versions within [min, max] that are not excluded
InRange ==
    {x \in Elements(allVersions) :
        /\ config.versions.min # <<>> => VersionLeq(config.versions.min[1], x)
        /\ config.versions.max # <<>> => VersionLeq(x, config.versions.max[1])
        /\ x \notin Elements(config.versions.exclude)}

\* the n highest versions of a set
Highest(S, n) == {x \in S : Cardinality({y \in S : y # x /\ VersionLeq(x, y)}) < n}

\* C28: without an include list, the filtered versions are strictly ascending in
\* numeric order and are exactly the installed versions within [min, max] that
\* are not excluded, cut to the `limit` highest of them when a limit is set; the
\* installed array is left as it was.
C28_FilterVersions ==
    /\ [](pc # "start" /\ ~IncludeGiven =>
            /\ \A i \in 1..(Len(versions) - 1) :
                  VersionLeq(versions[i], versions[i + 1]) /\ versions[i] # versions[i + 1]
            /\ Elements(versions) \subseteq Elements(allVersions)
            /\ Elements(versions)
                 = IF config.versions.limit = <<>> THEN InRange
                   ELSE Highest(InRange, config.versions.limit[1]))
    /\ [][allVersions' = allVersions]_vars

\* an unsorted installed array, one exclusion and limit 2: the two highest of
\* the three versions left, ascending
C28_Witness ==
    /\ pc = "loop"
    /\ allVersions = <<<<2, 0, 1>>, <<1, 0, 24>>, <<0, 2, 120>>, <<1, 0, 5>>>>
    /\ config.versions = [min |-> <<>>, max |-> <<>>, limit |-> <<2>>, include |-> <<>>,
                          exclude |-> <<<<1, 0, 24>>>>]
    /\ versions = <<<<1, 0, 5>>, <<2, 0, 1>>>>

\* C29 (as claimed): with an include list and no limit, every installed version
\* that is in the include list and not excluded is returned, whatever min and
\* max are.
C29_IncludeOverridesRange ==
    (pc # "start" /\ IncludeGiven /\ config.versions.limit = <<>>) =>
        \A x \in Elements(allVersions) :
            (x \in Elements(config.versions.include[1])
                /\ x \notin Elements(config.versions.exclude))
            => x \in Elements(versions)

\* the awaited trial settles
SettleStep == pc = "ptyAwait" /\ pc' # "ptyAwait"

TimedOut(st) == st # <<>> /\ st[1].kind = "resolve" /\ st[1].result = "timeout"

LastRun(rs) == rs[Len(rs)]

\* C31: a trial that ends in a Timeout resolution is recorded and not thrown: its
\* result is appended to the version's run list as a run, no error is recorded
\* and the interactive loop goes on; from there the next trial starts or, the
\* series being complete, the version's entry with this run list is pushed and
\* the suite goes on with the next version.
C31_TimeoutRecorded ==
    /\ [][(SettleStep /\ TimedOut(settled'))
            => /\ Len(runs') = Len(runs) + 1
               /\ SubSeq(runs', 1, Len(runs)) = runs
               /\ LastRun(runs').result = "timeout"
               /\ LastRun(runs').time = settled'[1].time
               /\ errors' = errors /\ results' = results /\ vi' = vi
               /\ thrown' = <<>>
               /\ pc' = "ptyLoop"]_vars
    /\ [][(pc = "ptyLoop" /\ TimedOut(settled))
            => \/ nTrials' = nTrials + 1 /\ pc' = "ptyAwait"
               \/ /\ Len(results') = Len(results) + 1
                  /\ LastRun(results').error = <<>>
                  /\ LastRun(results').interactiveBenchmark[1].runs = runs
                  /\ vi' = vi + 1
                  /\ pc' = "loop"]_vars

\* a suite that returned after the first trial of the first version timed out
\* and the second version was benchmarked
C31_Witness ==
    /\ pc = "returned"
    /\ suiteResult[1].errors = <<>>
    /\ Len(suiteResult[1].results) = 2
    /\ suiteResult[1].results[1].interactiveBenchmark[1].runs[1].result = "timeout"
    /\ Len(suiteResult[1].results[1].interactiveBenchmark[1].runs) = 2
    /\ suiteResult[1].results[2].interactiveBenchmark # <<>>

\* C32 (as claimed): once the three signals have completed and the stabilization
\* delay is running, no output resolves the trial ErrorDetected.
C32_NoErrorInWindow ==
    [][(Pending /\ readyDetected /\ readyTimer.st = "armed")
        => result'.outcome # "error_detected"]_vars

\* C33 (as claimed): the delayed carriage return of the trust-prompt answer is
\* written only while the trial is unresolved.
C33_NoWriteAfterResolution == [][writes' # writes => Pending]_vars

\* C34 (as claimed): when a trial spawns its PTY child, every child of an earlier
\* trial has exited.
C34_OneChildAlive == [][nTrials' = nTrials + 1 => killed = {}]_vars

\* C35 (as claimed): when the interactive benchmark of a version fails after its
\* spawn benchmark succeeded, the version's entry carries the versionBenchmark
\* together with the error.
C35_PartialResultsKept ==
    [][(SettleStep /\ settled'[1].kind = "reject" /\ combined.versionBenchmark # <<>>)
        => /\ Len(results') = Len(results) + 1
           /\ LastRun(results').error # <<>>
           /\ LastRun(results').versionBenchmark = combined.versionBenchmark]_vars

\* C36: a run of the spawn benchmark that fails is not fatal for the version: no
\* error is recorded and no entry pushed, the result under construction has no
\* versionBenchmark and no error, and the interactive benchmark is next; the
\* entry a completed interactive series then pushes has no versionBenchmark and
\* no error, and the suite result counts it in successfulVersions.
C36_SpawnFailureNotFatal ==
    /\ [][(pc = "spawnAwait" /\ pc' # "spawnAwait" /\ Len(spawnRuns') = Len(spawnRuns))
            => /\ pc' = "ptyLoop"
               /\ combined'.versionBenchmark = <<>>
               /\ combined'.error = <<>>
               /\ errors' = errors /\ results' = results /\ vi' = vi]_vars
    /\ [][(pc = "ptyLoop" /\ pc' = "loop" /\ config.benchmark.runBoth
              /\ combined.versionBenchmark = <<>>)
            => /\ Len(results') = Len(results) + 1
               /\ LastRun(results').versionBenchmark = <<>>
               /\ LastRun(results').error = <<>>
               /\ LastRun(results').interactiveBenchmark # <<>>]_vars
    /\ [](pc = "returned" =>
            suiteResult[1].metadata.successfulVersions
                = Cardinality({j \in 1..Len(results) : results[j].error = <<>>}))

\* both versions lost their spawn benchmark, the second one on its second run,
\* and both count as successful
C36_Witness ==
    /\ pc = "returned"
    /\ config.benchmark.runBoth
    /\ Len(spawnRuns) = 1
    /\ Len(results) = 2
    /\ \A j \in 1..2 : /\ results[j].versionBenchmark = <<>>
                       /\ results[j].interactiveBenchmark # <<>>
    /\ suiteResult[1].metadata.successfulVersions = 2

\* no installed version is at or above the filter's minimum
NoneInstalled ==
    /\ config.versions.min # <<>>
    /\ \A j \in 1..Len(allVersions) : ~VersionLeq(config.versions.min[1], allVersions[j])

\* C37: when the version filter matches no installed version, runSuite throws
\* "No versions match the filter criteria"; no trial was started, no child
\* spawned, and no directory exists for the run number it had computed.
C37_NoVersionsThrows ==
    (pc # "start" /\ NoneInstalled)
        => /\ pc = "threw"
           /\ thrown = <<"No versions match the filter criteria">>
           /\ nTrials = 0 /\ inFlight = 0 /\ killed = {}
           /\ runNumber[1] \notin runDirs
           /\ saved = {}
           /\ suiteResult = <<>>

\* runSuite threw with the run number 4 computed and the runs 1 and 3 on disk
C37_Witness ==
    /\ pc = "threw"
    /\ runNumber[1] = 4
    /\ runDirs = {1, 3}

\* C38 (as claimed): two runSuite invocations never save their results under
\* the same run number.
C38_UniqueRunNumbers ==
    \A i, j \in saved : i # j => runNumber[i] # runNumber[j]

\* C39 (as claimed): in the legacy implementation every trial whose spawn
\* succeeded eventually resolves, whatever the child does.
C39_LegacyResolves == (phase = "spawned") ~> ~Pending

\* C40 (as claimed): in the legacy implementation a result with outcome
\* exited_early has signals.prompt false: a child that exits after the prompt was
\* seen, the stabilization window included, is reported as ui_then_exit.
C40_LegacyExitedEarlyNoPrompt ==
    result.outcome = "exited_early" => ~result.signals.val.prompt

====
